---- MODULE Spec2Model ----
(***************************************************************************)
(* Model of src/ant_trajectory.py: the exploration loop (path integration  *)
(* with periodic scanning) and the return-path computation.                *)
(*                                                                         *)
(* Numbers. float64 lengths are fixed-point integers, Unit to 1.0;         *)
(* float64 angles are integers in steps of 1.5 degrees, Pi to np.pi.       *)
(* Addition and subtraction are exact; every operation whose result is not *)
(* representable (cos, sin, sqrt, arctan2, the products) rounds to the     *)
(* nearest representable value, as the float64 operation does.             *)
(***************************************************************************)
EXTENDS Integers, Sequences, FiniteSets, TLC

\* ------------------------------------------------------------------ bounds
MaxExploreSteps == 4
MaxScanInterval == 3

\* ------------------------------------------------------- number representation
Unit == 1000
Pi == 120
GainDen == 10

\* 1000 * cos(k * 1.5 degrees), k = 0..60, rounded to nearest
CosQuarter ==
  << 1000, 1000, 999, 997, 995, 991, 988, 983, 978, 972,
     966, 959, 951, 943, 934, 924, 914, 903, 891, 879,
     866, 853, 839, 824, 809, 793, 777, 760, 743, 725,
     707, 688, 669, 649, 629, 609, 588, 566, 545, 522,
     500, 477, 454, 431, 407, 383, 358, 334, 309, 284,
     259, 233, 208, 182, 156, 131, 105, 78, 52, 26, 0 >>

Abs(a) == IF a < 0 THEN -a ELSE a

\* a / b for b > 0, rounded to nearest, ties to even
RoundDiv(a, b) ==
  LET f == a \div b
      r == a % b
  IN  IF 2 * r < b THEN f
      ELSE IF 2 * r > b THEN f + 1
      ELSE IF f % 2 = 0 THEN f ELSE f + 1

\* np.cos
Cos(a) ==
  LET m == a % (2 * Pi)
      h == Pi \div 2
  IN  IF m <= h THEN CosQuarter[m + 1]
      ELSE IF m <= Pi THEN -CosQuarter[(Pi - m) + 1]
      ELSE IF m <= Pi + h THEN -CosQuarter[(m - Pi) + 1]
      ELSE CosQuarter[(2 * Pi - m) + 1]

\* np.sin
Sin(a) == Cos(a - Pi \div 2)

\* float64 product of two fixed-point numbers
Mul(a, b) == RoundDiv(a * b, Unit)

\* The one element of a singleton set. Intermediate results below are bound
\* as elements of singleton sets, so that they are computed once.
The(S) == CHOOSE v \in S : TRUE

\* the largest r with r * r <= s, for 0 <= s < (8 * Unit)^2: first the
\* multiple of 100 below it, then the rest
FloorSqrt(s) ==
  The({ c + Cardinality({ j \in 1 .. 99 : (c + j) * (c + j) <= s }) :
        c \in { 100 * Cardinality({ k \in 1 .. (8 * Unit) \div 100 :
                                      (100 * k) * (100 * k) <= s }) } })

\* np.sqrt, correctly rounded
Sqrt(s) ==
  The({ IF s - f * f <= f THEN f ELSE f + 1 : f \in { FloorSqrt(s) } })

\* px * sin(a) - py * cos(a): its sign tells on which side of the direction
\* of (px, py) the angle a is; it does not decrease as a goes from 0 to Pi / 2
Cross(a, px, py) == px * Sin(a) - py * Cos(a)

\* the first-quadrant angle whose direction is nearest to that of (px, py),
\* px >= 0, py >= 0: one of the two angles where Cross changes sign
NearestAngle(px, py) ==
  The({ IF hi = 0 THEN 0
        ELSE IF Abs(Cross(hi - 1, px, py)) <= Cross(hi, px, py) THEN hi - 1 ELSE hi :
        hi \in { Pi \div 2 + 1
                   - Cardinality({ a \in 0 .. Pi \div 2 : Cross(a, px, py) >= 0 }) } })

\* np.arctan2(dy, dx), in (-Pi, Pi], to the nearest representable angle
Arctan2(dy, dx) ==
  IF dx = 0 /\ dy = 0 THEN 0
  ELSE The({ IF dx >= 0 THEN (IF dy >= 0 THEN q ELSE -q)
             ELSE (IF dy >= 0 THEN Pi - q ELSE q - Pi) :
             q \in { NearestAngle(Abs(dx), Abs(dy)) } })

\* Python's a % b for b # 0: the result has the sign of b
PyMod(a, b) == IF b > 0 THEN a % b ELSE -((-a) % (-b))

\* int(a / b) for b # 0: truncation toward zero
IntTruncCeil(a, b) ==
  IF b > 0 THEN -((-a) \div b) ELSE -(a \div (-b))

IntTrunc(a, b) ==
  LET q == Abs(a) \div Abs(b)
  IN  IF (a >= 0) = (b > 0) THEN q ELSE -q

\* ------------------------------------------------------------------ inputs
StepLengths == {-Unit \div 2, 0, Unit \div 2, Unit}
ExploreStepCounts == -1 .. MaxExploreSteps
ScanIntervals == -1 .. MaxScanInterval
ScanGains == {0, 1, GainDen}
SunDirections == {0, 10}
\* draws of np.random.uniform(-np.pi / 4, np.pi / 4): low included, high excluded
Perturbations == {-(Pi \div 4), -10, 0, 20}

VARIABLES
  step_length, num_explore_steps, scan_interval, scan_gain, sun_direction,
  x, y, Dx, Dy, theta,
  explore_x, explore_y, Dx_hist, Dy_hist, theta_hist,
  step, delta, rng_draws,
  food_x, food_y, R_mag, R_angle, home_angle, num_home_steps,
  home_x, home_y, home_i,
  pc

config == << step_length, num_explore_steps, scan_interval, scan_gain, sun_direction >>
agent == << x, y, Dx, Dy, theta >>
history == << explore_x, explore_y, Dx_hist, Dy_hist, theta_hist >>
summary == << R_mag, R_angle, home_angle, num_home_steps >>
homepath == << food_x, food_y, home_x, home_y, home_i >>
vars == << config, agent, history, step, delta, rng_draws, summary, homepath, pc >>

\* ------------------------------------------------------------------ Init
InitHistEmpty(v) == << >>

InitHist(v) == << v >>

Init ==
  /\ step_length \in StepLengths
  /\ num_explore_steps \in ExploreStepCounts
  /\ scan_interval \in ScanIntervals
  /\ scan_gain \in ScanGains
  /\ sun_direction \in SunDirections
  /\ x = 0 /\ y = 0
  /\ Dx = 0 /\ Dy = 0
  /\ theta = 0
  /\ explore_x = InitHist(0)
  /\ explore_y = InitHist(0)
  /\ Dx_hist = InitHist(0)
  /\ Dy_hist = InitHist(0)
  /\ theta_hist = InitHist(0)
  /\ step = 0 /\ delta = 0 /\ rng_draws = 0
  /\ food_x = 0 /\ food_y = 0
  /\ R_mag = 0 /\ R_angle = 0 /\ home_angle = 0 /\ num_home_steps = 0
  /\ home_x = << >> /\ home_y = << >> /\ home_i = 0
  /\ pc = "explore"

\* ------------------------------------------------------------ exploration
\* for step in range(num_explore_steps)
MoreExploreStepsOffByOne == step <= num_explore_steps

MoreExploreSteps == step < num_explore_steps

\* Dy += dy
IntegrateDySwapped(D, ddx, ddy) == D + ddx

IntegrateDy(D, ddx, ddy) == D + ddy

\* if step % scan_interval == 0: theta -= scan_gain * (theta - sun_direction)
ScanCorrectShifted(th, i) ==
  IF PyMod(i + 1, scan_interval) = 0
  THEN th - RoundDiv(scan_gain * (th - sun_direction), GainDen)
  ELSE th

ScanCorrect(th, i) ==
  IF PyMod(i, scan_interval) = 0
  THEN th - RoundDiv(scan_gain * (th - sun_direction), GainDen)
  ELSE th

\* the heading theta_hist.append(theta) stores: theta as it is after the scan
RecordedThetaPreScan(pre, post) == pre

RecordedTheta(pre, post) == post

\* one iteration of the exploration loop, scan_interval # 0
ExploreStep ==
  /\ pc = "explore"
  /\ MoreExploreSteps
  /\ scan_interval # 0
  /\ \E d \in Perturbations :
       LET pre == theta + d
           ddx == Mul(step_length, Cos(pre))
           ddy == Mul(step_length, Sin(pre))
           post == ScanCorrect(pre, step)
       IN  /\ delta' = d
           /\ rng_draws' = rng_draws + 1
           /\ x' = x + ddx
           /\ y' = y + ddy
           /\ Dx' = Dx + ddx
           /\ Dy' = IntegrateDy(Dy, ddx, ddy)
           /\ theta' = post
           /\ explore_x' = Append(explore_x, x')
           /\ explore_y' = Append(explore_y, y')
           /\ Dx_hist' = Append(Dx_hist, Dx')
           /\ Dy_hist' = Append(Dy_hist, Dy')
           /\ theta_hist' = Append(theta_hist, RecordedTheta(pre, post))
  /\ step' = step + 1
  /\ UNCHANGED << config, summary, homepath, pc >>

\* the iteration with scan_interval = 0: step % scan_interval raises
\* ZeroDivisionError after the movement and before the appends
ExploreStepZeroDivision ==
  /\ pc = "explore"
  /\ MoreExploreSteps
  /\ scan_interval = 0
  /\ \E d \in Perturbations :
       LET pre == theta + d
           ddx == Mul(step_length, Cos(pre))
           ddy == Mul(step_length, Sin(pre))
       IN  /\ delta' = d
           /\ rng_draws' = rng_draws + 1
           /\ x' = x + ddx
           /\ y' = y + ddy
           /\ Dx' = Dx + ddx
           /\ Dy' = IntegrateDy(Dy, ddx, ddy)
           /\ theta' = pre
  /\ pc' = "error"
  /\ UNCHANGED << config, history, step, summary, homepath >>

\* ------------------------------------------------------------------ return
\* home_angle = R_angle + np.pi
HomeAngleNotReversed(a) == a

HomeAngle(a) == a + Pi

\* lines 126-141, step_length # 0
ComputeReturn ==
  /\ pc = "explore"
  /\ ~MoreExploreSteps
  /\ step_length # 0
  /\ food_x' = x
  /\ food_y' = y
  /\ R_mag' = Sqrt(Dx * Dx + Dy * Dy)
  /\ R_angle' = Arctan2(Dy, Dx)
  /\ home_angle' = HomeAngle(R_angle')
  /\ num_home_steps' = IntTrunc(R_mag', step_length)
  /\ home_x' = << x >>
  /\ home_y' = << y >>
  /\ home_i' = 0
  /\ pc' = "return"
  /\ UNCHANGED << config, agent, history, step, delta, rng_draws >>

\* lines 126-138, step_length = 0: R_mag / step_length is nan and int(nan)
\* raises ValueError
ComputeReturnNan ==
  /\ pc = "explore"
  /\ ~MoreExploreSteps
  /\ step_length = 0
  /\ food_x' = x
  /\ food_y' = y
  /\ R_mag' = Sqrt(Dx * Dx + Dy * Dy)
  /\ R_angle' = Arctan2(Dy, Dx)
  /\ home_angle' = HomeAngle(R_angle')
  /\ pc' = "error"
  /\ UNCHANGED << config, agent, history, step, delta, rng_draws,
                  num_home_steps, home_x, home_y, home_i >>

\* for _ in range(num_home_steps)
MoreHomeStepsOffByOne == home_i <= num_home_steps

MoreHomeSteps == home_i < num_home_steps

\* a return step that moves the agent itself instead of the path cursor
ReturnStepMovesAgent ==
  /\ pc = "return"
  /\ MoreHomeSteps
  /\ x' = x + Mul(step_length, Cos(home_angle))
  /\ y' = y + Mul(step_length, Sin(home_angle))
  /\ food_x' = x'
  /\ food_y' = y'
  /\ home_x' = Append(home_x, x')
  /\ home_y' = Append(home_y, y')
  /\ home_i' = home_i + 1
  /\ UNCHANGED << config, Dx, Dy, theta, history, step, delta, rng_draws, summary, pc >>

\* one iteration of the return loop
ReturnStep ==
  /\ pc = "return"
  /\ MoreHomeSteps
  /\ food_x' = food_x + Mul(step_length, Cos(home_angle))
  /\ food_y' = food_y + Mul(step_length, Sin(home_angle))
  /\ home_x' = Append(home_x, food_x')
  /\ home_y' = Append(home_y, food_y')
  /\ home_i' = home_i + 1
  /\ UNCHANGED << config, agent, history, step, delta, rng_draws, summary, pc >>

\* the return loop ends
Finish ==
  /\ pc = "return"
  /\ ~MoreHomeSteps
  /\ pc' = "done"
  /\ UNCHANGED << config, agent, history, step, delta, rng_draws, summary, homepath >>

Next ==
  \/ ExploreStep
  \/ ExploreStepZeroDivision
  \/ ComputeReturn
  \/ ComputeReturnNan
  \/ ReturnStep
  \/ Finish

Spec == Init /\ [][Next]_vars

\* the script is one sequential pass: a step that can be taken is taken
LiveSpec == Spec /\ WF_vars(Next)

\* ---------------------------------------------------------------- properties
InvalidConfig == scan_interval < 1 \/ step_length <= 0 \/ num_explore_steps < 0

Last(h) == h[Len(h)]

IsPrefix(s, t) == Len(s) <= Len(t) /\ \A i \in 1 .. Len(s) : t[i] = s[i]

Histories == { explore_x, explore_y, Dx_hist, Dy_hist, theta_hist }

\* an exploration iteration that ran to its end
ExploreIteration == pc = "explore" /\ step' = step + 1

\* C1: in every state the displacement estimate equals the position (the
\* initial position is the origin), and the recorded displacement histories
\* equal the recorded position histories entry by entry.
C1_PathIntegrationIdentity ==
  /\ Dx = x - 0
  /\ Dy = y - 0
  /\ Len(Dx_hist) = Len(explore_x)
  /\ Len(Dy_hist) = Len(explore_y)
  /\ \A k \in 1 .. Len(explore_x) : Dx_hist[k] = explore_x[k]
  /\ \A k \in 1 .. Len(explore_y) : Dy_hist[k] = explore_y[k]

C1_Witness ==
  /\ pc = "explore"
  /\ step >= 2
  /\ Len(Dy_hist) = step + 1
  /\ Dx # 0 /\ Dy # 0 /\ Dx # Dy
  /\ Dy_hist[2] # 0

\* C2: a run with an invalid configuration takes no exploration step, leaves
\* the state and the histories at their initial values, and never reaches the
\* return phase or the end of the run.
C2_InvalidConfigurationRejected ==
  InvalidConfig =>
    /\ pc \notin {"return", "done"}
    /\ rng_draws = 0
    /\ x = 0 /\ y = 0 /\ Dx = 0 /\ Dy = 0 /\ theta = 0
    /\ \A h \in Histories : h = << 0 >>

\* C3: for step_length > 0, once the return is computed R_mag is the Euclidean
\* norm of (Dx, Dy) (to the nearest representable value), num_home_steps is
\* floor(R_mag / step_length), the return path starts at the exploration end
\* position, and at the end of the run it has num_home_steps + 1 entries.
C3_ReturnStepCount ==
  (pc \in {"return", "done"} /\ step_length > 0) =>
    /\ R_mag >= 0
    /\ (R_mag = 0 \/ (2 * R_mag - 1) * (2 * R_mag - 1) <= 4 * (Dx * Dx + Dy * Dy))
    /\ 4 * (Dx * Dx + Dy * Dy) <= (2 * R_mag + 1) * (2 * R_mag + 1)
    /\ num_home_steps * step_length <= R_mag
    /\ R_mag < (num_home_steps + 1) * step_length
    /\ home_x[1] = Last(explore_x) /\ home_y[1] = Last(explore_y)
    /\ Len(home_x) = home_i + 1 /\ Len(home_y) = home_i + 1
    /\ (pc = "done" =>
          Len(home_x) = num_home_steps + 1 /\ Len(home_y) = num_home_steps + 1)

C3_Witness ==
  /\ pc = "done"
  /\ step_length > 0
  /\ num_home_steps >= 2
  /\ R_mag % step_length # 0
  /\ Len(home_x) = 3

\* C4: a step of the return phase changes neither the agent state, nor the
\* return summary, nor any entry of the exploration histories.
C4_ReturnLeavesAgentUnchanged ==
  [][(pc \in {"return", "done"}) =>
       (/\ UNCHANGED << x, y, theta, Dx, Dy >>
        /\ UNCHANGED << R_mag, R_angle, home_angle >>
        /\ UNCHANGED history)]_vars

C4_Witness ==
  /\ pc = "return"
  /\ home_i >= 2
  /\ food_x # x
  /\ food_y # y

\* C5: in an exploration step with index i and scan_interval >= 1 the movement
\* is made with theta + delta; afterwards the heading is theta + delta minus
\* scan_gain * (theta + delta - sun_direction) (rounded) when
\* i mod scan_interval = 0, and theta + delta otherwise. With gain 0 a scan
\* step leaves the heading alone, with gain 1 it sets it to sun_direction.
C5_ScanCorrectionRule ==
  [][(ExploreIteration /\ scan_interval >= 1) =>
       (LET pre == theta + delta' IN
         /\ x' = x + Mul(step_length, Cos(pre))
         /\ y' = y + Mul(step_length, Sin(pre))
         /\ IF step % scan_interval = 0
            THEN /\ 2 * Abs(GainDen * (pre - theta') - scan_gain * (pre - sun_direction))
                      <= GainDen
                 /\ (scan_gain = 0 => theta' = pre)
                 /\ (scan_gain = GainDen => theta' = sun_direction)
            ELSE theta' = pre)]_vars

C5_Witness ==
  /\ pc = "explore"
  /\ step = 3
  /\ scan_interval = 2
  /\ scan_gain = GainDen
  /\ sun_direction # 0
  /\ theta = sun_direction
  /\ theta_hist[3] # sun_direction

PhaseRank ==
  CASE pc = "explore" -> 1
    [] pc = "return" -> 2
    [] pc = "done" -> 3
    [] OTHER -> 4

\* C6: the phases follow explore -> return -> done and never go back; the
\* exploration steps all happen before the return is computed, exactly
\* num_explore_steps of them; then exactly num_home_steps return steps happen;
\* a run with a valid configuration reaches done, and from done on the
\* trajectory record and the return summary no longer change.
C6_PhaseOrder ==
  /\ [][PhaseRank' >= PhaseRank]_vars
  /\ [][pc # "explore" => step' = step /\ rng_draws' = rng_draws]_vars
  /\ []((pc \in {"return", "done"} /\ num_explore_steps >= 0) =>
          step = num_explore_steps)
  /\ [][pc # "return" => home_i' = home_i \/ pc' = "return"]_vars
  /\ []((pc = "return" /\ step_length > 0) => home_i <= num_home_steps)
  /\ []((pc = "done" /\ step_length > 0) => home_i = num_home_steps)
  /\ (~InvalidConfig => <>(pc = "done"))
  /\ [][pc = "done" => (UNCHANGED history /\ UNCHANGED summary /\ UNCHANGED homepath)]_vars

C6_Witness ==
  /\ pc = "done"
  /\ ~InvalidConfig
  /\ step = MaxExploreSteps
  /\ home_i >= 2

\* C7: after k exploration steps each of the five histories has k + 1 entries
\* and entry 0 is the initial state; when exploration has ended each has
\* num_explore_steps + 1 entries; a step only appends to a history.
C7_HistoryLength ==
  /\ [](\A h \in Histories : Len(h) = step + 1 /\ h[1] = 0)
  /\ []((pc \in {"return", "done"} /\ num_explore_steps >= 0) =>
          \A h \in Histories : Len(h) = num_explore_steps + 1)
  /\ [][(/\ IsPrefix(explore_x, explore_x')
         /\ IsPrefix(explore_y, explore_y')
         /\ IsPrefix(Dx_hist, Dx_hist')
         /\ IsPrefix(Dy_hist, Dy_hist')
         /\ IsPrefix(theta_hist, theta_hist'))]_vars

C7_Witness ==
  /\ pc = "done"
  /\ num_explore_steps = MaxExploreSteps
  /\ Len(theta_hist) = MaxExploreSteps + 1
  /\ theta_hist[2] # 0

\* C8 as claimed: the heading stored at history index i + 1 is the pre-scan
\* heading theta + delta of step i.
C8_SnapshotPreScan ==
  [][ExploreIteration => theta_hist'[step + 2] = theta + delta']_vars

\* C8 as amended: the heading stored at history index i + 1 is the heading
\* after the scan of step i; it is the pre-scan heading theta + delta only in
\* the steps that do not scan.
C8_SnapshotPostScan ==
  [][ExploreIteration =>
       (/\ Len(theta_hist') = step + 2
        /\ theta_hist'[step + 2] = theta'
        /\ (scan_interval >= 1 /\ step % scan_interval # 0
              => theta_hist'[step + 2] = theta + delta'))]_vars

C8_Witness ==
  /\ pc = "explore"
  /\ step = 1
  /\ scan_interval >= 1
  /\ scan_gain > 0
  /\ theta_hist[2] = theta
  /\ theta_hist[2] # delta

\* C9: with num_explore_steps = 0 and an otherwise valid configuration there
\* is no exploration step and no random draw, the displacement estimate stays
\* (0, 0), and the return has magnitude 0, 0 steps and the single point (0, 0).
C9_ZeroSteps ==
  (num_explore_steps = 0 /\ ~InvalidConfig) =>
    /\ pc # "error"
    /\ step = 0 /\ rng_draws = 0
    /\ Dx = 0 /\ Dy = 0
    /\ \A h \in Histories : h = << 0 >>
    /\ (pc \in {"return", "done"} =>
          /\ R_mag = 0
          /\ num_home_steps = 0
          /\ home_x = << 0 >> /\ home_y = << 0 >>
          /\ home_x[1] = Last(explore_x) /\ home_y[1] = Last(explore_y))

C9_Witness ==
  /\ pc = "done"
  /\ num_explore_steps = 0
  /\ ~InvalidConfig
  /\ Len(home_x) = 1

\* the remainder magnitude - stepCount * stepLength
Shortfall == R_mag - num_home_steps * step_length

ReturnTolerance(n) == 1 + n * (1 + (15 * step_length) \div Unit)

====
